---- MODULE Spec2Model ----
(***************************************************************************)
(* Model of the Vercel MCP connector (src/app.py): the Flask endpoint      *)
(* /mcp, the JSON-RPC router process_mcp_message, the tool dispatcher      *)
(* handle_tool_call and the backend client vercel_request.                 *)
(*                                                                         *)
(* Python values are modelled as tagged records J(t, s, o):                *)
(*   t  the type tag: "null", "bool", "num", "str", "arr", "obj"           *)
(*   s  the scalar as text ("7", "true", "abc"), "" for containers         *)
(*   o  the items: a sequence of values for "arr", a sequence of           *)
(*      <<key, value>> pairs in insertion order for "obj" (a Python dict)  *)
(* All inbound requests carry Content-Type: application/json; the health   *)
(* endpoint GET / reads TOOLS and VERCEL_TEAM_ID only and is left out.     *)
(***************************************************************************)
EXTENDS Integers, Sequences, FiniteSets, TLC

VARIABLES
    VERCEL_TOKEN,    \* the credential read at startup
    VERCEL_TEAM_ID,  \* the team identifier read at startup, "" when unset
    TOOLS,           \* the tool registry
    pc,              \* "idle", "received" (a POST /mcp is in), "responded"
    request,         \* the body of the POST being handled
    response,        \* the HTTP response of mcp_handler: status and JSON body
    invocations,     \* the vercel_request calls made for the request, with their results
    outbound,        \* the HTTP requests sent upstream for the request
    caught,          \* the except clause that ran: "", "handle_tool_call", "mcp_handler"
    upstream         \* the upstream's answer to the HTTP request sent, if one was

vars == <<VERCEL_TOKEN, VERCEL_TEAM_ID, TOOLS, pc, request, response,
          invocations, outbound, caught, upstream>>

(***************************************************************************)
(* Python / JSON values                                                    *)
(***************************************************************************)
J(t, s, o) == [t |-> t, s |-> s, o |-> o]
JNull == J("null", "", <<>>)
JBool(b) == J("bool", IF b THEN "true" ELSE "false", <<>>)
JNum(n) == J("num", ToString(n), <<>>)
JStr(s) == J("str", s, <<>>)
JArr(items) == J("arr", "", items)
JObj(pairs) == J("obj", "", pairs)

IsDict(v) == v.t = "obj"

\* Python truthiness (bool(v)).
Truthy(v) ==
    CASE v.t = "null" -> FALSE
      [] v.t = "bool" -> v.s = "true"
      [] v.t = "num"  -> v.s # "0"
      [] v.t = "str"  -> v.s # ""
      [] OTHER        -> Len(v.o) > 0

\* key in d, d[key], and d[key] = value on a dict.
Has(d, k) == \E i \in 1..Len(d.o) : d.o[i][1] = k
Get(d, k) == d.o[CHOOSE i \in 1..Len(d.o) : d.o[i][1] = k][2]
Put(d, k, v) ==
    IF Has(d, k)
    THEN JObj([i \in 1..Len(d.o) |-> IF d.o[i][1] = k THEN <<k, v>> ELSE d.o[i]])
    ELSE JObj(Append(d.o, <<k, v>>))
Keys(d) == {d.o[i][1] : i \in 1..Len(d.o)}

\* type(v).__name__
PyTypeName(v) ==
    CASE v.t = "null" -> "NoneType"
      [] v.t = "bool" -> "bool"
      [] v.t = "num"  -> "int"
      [] v.t = "str"  -> "str"
      [] v.t = "arr"  -> "list"
      [] OTHER        -> "dict"

\* str(v) as an f-string formats it (scalars and empty containers).
PyStr(v) ==
    CASE v.t = "null" -> "None"
      [] v.t = "bool" -> IF v.s = "true" THEN "True" ELSE "False"
      [] v.t = "num"  -> v.s
      [] v.t = "str"  -> v.s
      [] v.t = "arr"  -> IF Len(v.o) = 0 THEN "[]" ELSE "[...]"
      [] OTHER        -> IF Len(v.o) = 0 THEN "{}" ELSE "{...}"

\* "".join(chars)
RECURSIVE Join(_)
Join(chars) ==
    IF Len(chars) = 0 THEN ""
    ELSE IF Len(chars) = 1 THEN chars[1]
    ELSE LET h == Len(chars) \div 2
         IN  Join(SubSeq(chars, 1, h)) \o Join(SubSeq(chars, h + 1, Len(chars)))

RECURSIVE Spaces(_)
Spaces(n) == IF n = 0 THEN "" ELSE " " \o Spaces(n - 1)

\* json.dumps(v, indent=2, default=str), at nesting depth d.  The strings of
\* the model hold no character that JSON escapes, so a string is quoted as is.
RECURSIVE JsonDumpsAt(_, _)
RECURSIVE JsonItems(_, _, _, _)
JsonItems(v, i, d, sep) ==
    IF i > Len(v.o) THEN ""
    ELSE sep \o Spaces(2 * (d + 1))
         \o (IF v.t = "obj"
             THEN "\"" \o v.o[i][1] \o "\": " \o JsonDumpsAt(v.o[i][2], d + 1)
             ELSE JsonDumpsAt(v.o[i], d + 1))
         \o JsonItems(v, i + 1, d, ",\n")
JsonDumpsAt(v, d) ==
    CASE v.t = "null" -> "null"
      [] v.t = "bool" -> v.s
      [] v.t = "num"  -> v.s
      [] v.t = "str"  -> "\"" \o v.s \o "\""
      [] v.t = "arr"  -> IF Len(v.o) = 0 THEN "[]"
                         ELSE "[\n" \o JsonItems(v, 1, d, "") \o "\n" \o Spaces(2 * d) \o "]"
      [] OTHER        -> IF Len(v.o) = 0 THEN "{}"
                         ELSE "{\n" \o JsonItems(v, 1, d, "") \o "\n" \o Spaces(2 * d) \o "}"
JsonDumps(v) == JsonDumpsAt(v, 0)

\* A Python call either returns a value or raises an exception with str(e) = msg.
Return(v) == [raised |-> FALSE, val |-> v, msg |-> ""]
Raise(m) == [raised |-> TRUE, val |-> JNull, msg |-> m]

\* d.get(k, default): AttributeError when d is not a dict.
PyGet(d, k, default) ==
    IF ~IsDict(d)
    THEN Raise("'" \o PyTypeName(d) \o "' object has no attribute 'get'")
    ELSE Return(IF Has(d, k) THEN Get(d, k) ELSE default)

\* d[k]: KeyError when the key is absent, TypeError when d is None or a list.
PySubscript(d, k) ==
    CASE d.t = "obj" -> IF Has(d, k) THEN Return(Get(d, k)) ELSE Raise("'" \o k \o "'")
      [] d.t = "arr" -> Raise("list indices must be integers or slices, not str")
      [] OTHER       -> Raise("'" \o PyTypeName(d) \o "' object is not subscriptable")

(***************************************************************************)
(* Configuration                                                           *)
(***************************************************************************)
BASE_URL == "https://api.vercel.com"

\* Values the environment may give VERCEL_TEAM_ID and VERCEL_TOKEN ("" = unset).
TeamIds == {"", "team_abc"}
Tokens == {"tok_1"}

(***************************************************************************)
(* Backend client                                                          *)
(***************************************************************************)
\* response.text[:500] keeps this many characters.
DetailsLimit == 500
\* How far past DetailsLimit the longest upstream body of the model reaches.
MaxBodyOver == 1

Min(a, b) == IF a < b THEN a ELSE b
Repeat(c, n) == [i \in 1..n |-> c]

\* Upstream response bodies, as character sequences.
Bodies == {<<"{", "}">>, <<"[", "1", "]">>, <<>>,
           Repeat("x", DetailsLimit + MaxBodyOver)}
StatusCodes == {200, 201, 202, 204, 404, 500}
TransportErrors == {"timed out"}

\* What the upstream does with one HTTP request: the transport raises
\* (exc # ""), or a response with a status code and a body arrives.
HttpReply(exc, code, text) == [exc |-> exc, status_code |-> code, text |-> text]
Replies == {HttpReply(e, 0, <<>>) : e \in TransportErrors}
           \cup {HttpReply("", c, b) : c \in StatusCodes, b \in Bodies}

\* response.json(): the parsed body, or json.JSONDecodeError.
ResponseJson(text) ==
    CASE text = <<"{", "}">>      -> Return(JObj(<<>>))
      [] text = <<"[", "1", "]">> -> Return(JArr(<<JNum(1)>>))
      [] OTHER -> Raise("Expecting value: line 1 column 1 (char 0)")

\* Mutant of TeamParams: params = {"teamId": VERCEL_TEAM_ID}, the caller's dropped.
TeamParams_Replaces(params, team) ==
    IF team # "" THEN JObj(<< <<"teamId", JStr(team)>> >>) ELSE params

\* if VERCEL_TEAM_ID: params = params or {}; params["teamId"] = VERCEL_TEAM_ID
TeamParams(params, team) ==
    IF team # ""
    THEN Put(IF Truthy(params) THEN params ELSE JObj(<<>>), "teamId", JStr(team))
    ELSE params

Headers(token) ==
    JObj(<< <<"Authorization", JStr("Bearer " \o token)>>,
            <<"Content-Type", JStr("application/json")>> >>)

\* The httpx call the method selects: json=data only for POST, PATCH and PUT.
HttpCall(method, url, headers, data, params) ==
    [method |-> method, url |-> url, headers |-> headers,
     json |-> IF method \in {"POST", "PATCH", "PUT"} THEN data ELSE JNull,
     params |-> params]

\* Mutant of StatusResult: no special case for 204, its body is parsed too.
StatusResult_Parses204(reply) ==
    IF reply.status_code \in {200, 201, 202, 204}
    THEN ResponseJson(reply.text)
    ELSE Return(JObj(<< <<"error", JStr("HTTP " \o ToString(reply.status_code))>>,
                        <<"details", JStr(Join(SubSeq(reply.text, 1,
                                           Min(DetailsLimit, Len(reply.text)))))>> >>))

\* The result for a response that arrived.
StatusResult(reply) ==
    IF reply.status_code \in {200, 201, 202, 204}
    THEN IF reply.status_code = 204
         THEN Return(JObj(<< <<"success", JBool(TRUE)>> >>))
         ELSE ResponseJson(reply.text)
    ELSE Return(JObj(<< <<"error", JStr("HTTP " \o ToString(reply.status_code))>>,
                        <<"details", JStr(Join(SubSeq(reply.text, 1,
                                           Min(DetailsLimit, Len(reply.text)))))>> >>))

\* except Exception as e: return {"error": str(e)}
ExceptionResult(msg) == JObj(<< <<"error", JStr(msg)>> >>)

\* vercel_request(method, endpoint, data, params) under the configuration
\* (token, team), the upstream answering with reply.  ret is the returned
\* dict, sent the HTTP requests issued.
vercel_request(method, endpoint, data, params, token, team, reply) ==
    LET headers == Headers(token)
        url == BASE_URL \o endpoint
        p == TeamParams(params, team)
    IN  IF method \notin {"GET", "POST", "PATCH", "DELETE", "PUT"}
        THEN [ret |-> JObj(<< <<"error", JStr("Unknown method: " \o method)>> >>),
              sent |-> <<>>]
        ELSE [ret |-> IF reply.exc # "" THEN ExceptionResult(reply.exc)
                      ELSE LET r == StatusResult(reply)
                           IN  IF r.raised THEN ExceptionResult(r.msg) ELSE r.val,
              sent |-> <<HttpCall(method, url, headers, data, p)>>]

(***************************************************************************)
(* Tool registry                                                           *)
(***************************************************************************)
\* One registry entry; props is a sequence of <<property, type>>.  The
\* "required" key is present only for the tools that declare it.
Property(p) == <<p[1], JObj(<< <<"type", JStr(p[2])>> >>)>>
Tool(name, description, props, required) ==
    JObj(<< <<"name", JStr(name)>>,
            <<"description", JStr(description)>>,
            <<"inputSchema",
              JObj(<< <<"type", JStr("object")>>,
                      <<"properties", JObj([i \in 1..Len(props) |-> Property(props[i])])>> >>
                   \o (IF required = <<>> THEN <<>>
                       ELSE << <<"required",
                                 JArr([i \in 1..Len(required) |-> JStr(required[i])])>> >>))>> >>)

ToolTable ==
    JArr(<<
      Tool("list_projects", "List all Vercel projects",
           << <<"limit", "integer">> >>, <<>>),
      Tool("get_project", "Get details of a specific project",
           << <<"project_id", "string">> >>, <<"project_id">>),
      Tool("create_project", "Create a new Vercel project",
           << <<"name", "string">>, <<"framework", "string">>,
              <<"git_repository", "object">> >>, <<"name">>),
      Tool("delete_project", "Delete a Vercel project",
           << <<"project_id", "string">> >>, <<"project_id">>),
      Tool("list_deployments", "List deployments for a project",
           << <<"project_id", "string">>, <<"limit", "integer">>,
              <<"state", "string">> >>, <<>>),
      Tool("get_deployment", "Get details of a specific deployment",
           << <<"deployment_id", "string">> >>, <<"deployment_id">>),
      Tool("cancel_deployment", "Cancel a running deployment",
           << <<"deployment_id", "string">> >>, <<"deployment_id">>),
      Tool("list_domains", "List all domains",
           << <<"limit", "integer">> >>, <<>>),
      Tool("add_domain", "Add a domain to a project",
           << <<"project_id", "string">>, <<"domain", "string">> >>,
           <<"project_id", "domain">>),
      Tool("remove_domain", "Remove a domain from a project",
           << <<"project_id", "string">>, <<"domain", "string">> >>,
           <<"project_id", "domain">>),
      Tool("list_env_vars", "List environment variables for a project",
           << <<"project_id", "string">> >>, <<"project_id">>),
      Tool("create_env_var", "Create an environment variable",
           << <<"project_id", "string">>, <<"key", "string">>,
              <<"value", "string">>, <<"target", "array">> >>,
           <<"project_id", "key", "value">>),
      Tool("delete_env_var", "Delete an environment variable",
           << <<"project_id", "string">>, <<"env_id", "string">> >>,
           <<"project_id", "env_id">>),
      Tool("redeploy", "Trigger a redeployment of the latest deployment",
           << <<"deployment_id", "string">> >>, <<"deployment_id">>),
      Tool("get_user", "Get current authenticated user info", <<>>, <<>>)
    >>)

\* Lookups in a registry (a JSON array of entries).
ToolNames(registry) == {Get(registry.o[i], "name").s : i \in 1..Len(registry.o)}
ToolEntry(registry, name) ==
    registry.o[CHOOSE i \in 1..Len(registry.o) : Get(registry.o[i], "name").s = name]
ToolProperties(registry, name) ==
    Keys(Get(Get(ToolEntry(registry, name), "inputSchema"), "properties"))
ToolRequired(registry, name) ==
    LET schema == Get(ToolEntry(registry, name), "inputSchema")
    IN  IF Has(schema, "required")
        THEN {Get(schema, "required").o[i].s : i \in 1..Len(Get(schema, "required").o)}
        ELSE {}

(***************************************************************************)
(* Tool dispatcher                                                         *)
(***************************************************************************)
\* Mutant of DispatchNames: the chain lacks the get_user branch.
DispatchNames_NoGetUser ==
    {"list_projects", "get_project", "create_project", "delete_project",
     "list_deployments", "get_deployment", "cancel_deployment", "list_domains",
     "add_domain", "remove_domain", "list_env_vars", "create_env_var",
     "delete_env_var", "redeploy"}

\* The names the if/elif chain of handle_tool_call tests for.
DispatchNames ==
    {"list_projects", "get_project", "create_project", "delete_project",
     "list_deployments", "get_deployment", "cancel_deployment", "list_domains",
     "add_domain", "remove_domain", "list_env_vars", "create_env_var",
     "delete_env_var", "redeploy", "get_user"}

\* name == "<literal>" selects a branch only for a string.
Branch(name) == IF name.t = "str" /\ name.s \in DispatchNames THEN name.s ELSE "else"

\* The reads of args each branch makes before it calls the backend client, in
\* evaluation order: <<"sub", k>> is args[k], <<"get", k>> is args.get(k).
ArgReads(branch) ==
    CASE branch = "list_projects"     -> << <<"get", "limit">> >>
      [] branch = "get_project"       -> << <<"sub", "project_id">> >>
      [] branch = "create_project"    -> << <<"sub", "name">>, <<"get", "framework">>,
                                            <<"get", "git_repository">> >>
      [] branch = "delete_project"    -> << <<"sub", "project_id">> >>
      [] branch = "list_deployments"  -> << <<"get", "limit">>, <<"get", "project_id">>,
                                            <<"get", "state">> >>
      [] branch = "get_deployment"    -> << <<"sub", "deployment_id">> >>
      [] branch = "cancel_deployment" -> << <<"sub", "deployment_id">> >>
      [] branch = "list_domains"      -> << <<"get", "limit">> >>
      [] branch = "add_domain"        -> << <<"sub", "project_id">>, <<"sub", "domain">> >>
      [] branch = "remove_domain"     -> << <<"sub", "project_id">>, <<"sub", "domain">> >>
      [] branch = "list_env_vars"     -> << <<"sub", "project_id">> >>
      [] branch = "create_env_var"    -> << <<"sub", "key">>, <<"sub", "value">>,
                                            <<"get", "target">>, <<"sub", "project_id">> >>
      [] branch = "delete_env_var"    -> << <<"sub", "project_id">>, <<"sub", "env_id">> >>
      [] branch = "redeploy"          -> << <<"sub", "deployment_id">> >>
      [] OTHER                        -> <<>>

\* One read of args.
ArgRead(args, read) ==
    IF read[1] = "sub" THEN PySubscript(args, read[2]) ELSE PyGet(args, read[2], JNull)

\* The first read that raises, if any.
RECURSIVE ArgFault(_, _)
ArgFault(args, reads) ==
    IF reads = <<>> THEN Return(JNull)
    ELSE LET r == ArgRead(args, Head(reads))
         IN  IF r.raised THEN r ELSE ArgFault(args, Tail(reads))

\* args.get(k, default) and args.get(k) on a dict.
GetOr(args, k, default) == IF Has(args, k) THEN Get(args, k) ELSE default
Given(args, k) == Has(args, k) /\ Truthy(Get(args, k))

\* The arguments of the vercel_request call of a branch whose reads succeed.
Call(method, endpoint, data, params) ==
    [method |-> method, endpoint |-> endpoint, data |-> data, params |-> params]
Optional(args, k, as) == IF Given(args, k) THEN << <<as, Get(args, k)>> >> ELSE <<>>
BackendRequest(branch, args) ==
    CASE branch = "list_projects" ->
           Call("GET", "/v9/projects", JNull,
                JObj(<< <<"limit", GetOr(args, "limit", JNum(20))>> >>))
      [] branch = "get_project" ->
           Call("GET", "/v9/projects/" \o PyStr(Get(args, "project_id")), JNull, JNull)
      [] branch = "create_project" ->
           Call("POST", "/v10/projects",
                JObj(<< <<"name", Get(args, "name")>> >>
                     \o Optional(args, "framework", "framework")
                     \o Optional(args, "git_repository", "gitRepository")),
                JNull)
      [] branch = "delete_project" ->
           Call("DELETE", "/v9/projects/" \o PyStr(Get(args, "project_id")), JNull, JNull)
      [] branch = "list_deployments" ->
           Call("GET", "/v6/deployments", JNull,
                JObj(<< <<"limit", GetOr(args, "limit", JNum(10))>> >>
                     \o Optional(args, "project_id", "projectId")
                     \o Optional(args, "state", "state")))
      [] branch = "get_deployment" ->
           Call("GET", "/v13/deployments/" \o PyStr(Get(args, "deployment_id")), JNull, JNull)
      [] branch = "cancel_deployment" ->
           Call("PATCH", "/v12/deployments/" \o PyStr(Get(args, "deployment_id")) \o "/cancel",
                JNull, JNull)
      [] branch = "list_domains" ->
           Call("GET", "/v5/domains", JNull,
                JObj(<< <<"limit", GetOr(args, "limit", JNum(20))>> >>))
      [] branch = "add_domain" ->
           Call("POST", "/v10/projects/" \o PyStr(Get(args, "project_id")) \o "/domains",
                JObj(<< <<"name", Get(args, "domain")>> >>), JNull)
      [] branch = "remove_domain" ->
           Call("DELETE", "/v9/projects/" \o PyStr(Get(args, "project_id"))
                          \o "/domains/" \o PyStr(Get(args, "domain")), JNull, JNull)
      [] branch = "list_env_vars" ->
           Call("GET", "/v9/projects/" \o PyStr(Get(args, "project_id")) \o "/env", JNull, JNull)
      [] branch = "create_env_var" ->
           Call("POST", "/v10/projects/" \o PyStr(Get(args, "project_id")) \o "/env",
                JObj(<< <<"key", Get(args, "key")>>,
                        <<"value", Get(args, "value")>>,
                        <<"target", GetOr(args, "target",
                                          JArr(<<JStr("production"), JStr("preview"),
                                                 JStr("development")>>))>>,
                        <<"type", JStr("encrypted")>> >>),
                JNull)
      [] branch = "delete_env_var" ->
           Call("DELETE", "/v9/projects/" \o PyStr(Get(args, "project_id"))
                          \o "/env/" \o PyStr(Get(args, "env_id")), JNull, JNull)
      [] branch = "redeploy" ->
           Call("POST", "/v13/deployments",
                JObj(<< <<"deploymentId", Get(args, "deployment_id")>>,
                        <<"target", JStr("production")>> >>),
                JNull)
      [] OTHER ->
           Call("GET", "/v2/user", JNull, JNull)

TextContent(text) ==
    <<"content", JArr(<<JObj(<< <<"type", JStr("text")>>, <<"text", JStr(text)>> >>)>>)>>

\* Mutant of UnknownToolResult: the isError flag is left out.
UnknownToolResult_NoFlag(name) ==
    JObj(<<TextContent("Unknown tool: " \o PyStr(name))>>)

\* else: return {"content": [... f"Unknown tool: {name}"], "isError": True}
UnknownToolResult(name) ==
    JObj(<<TextContent("Unknown tool: " \o PyStr(name)), <<"isError", JBool(TRUE)>> >>)

\* Mutant of ToolResult: a result with an "error" key is flagged isError.
ToolResult_FlagsFailure(result) ==
    IF IsDict(result) /\ Has(result, "error")
    THEN JObj(<<TextContent(JsonDumps(result)), <<"isError", JBool(TRUE)>> >>)
    ELSE JObj(<<TextContent(JsonDumps(result))>>)

\* return {"content": [... json.dumps(result, indent=2, default=str)]}
ToolResult(result) == JObj(<<TextContent(JsonDumps(result))>>)

\* except Exception as e: return {"content": [... f"Error: {str(e)}"], "isError": True}
ToolError(msg) ==
    JObj(<<TextContent("Error: " \o msg), <<"isError", JBool(TRUE)>> >>)

\* A vercel_request invocation as recorded: its arguments and what it returned.
Invocation(c, ret) ==
    [method |-> c.method, endpoint |-> c.endpoint, data |-> c.data,
     params |-> c.params, ret |-> ret]

\* handle_tool_call(name, args): result is the returned dict, calls the
\* vercel_request invocations made, sent the HTTP requests issued, fault
\* whether an exception was raised (and caught) inside the function.
handle_tool_call(name, args, token, team, reply) ==
    LET branch == Branch(name)
        fault == ArgFault(args, ArgReads(branch))
    IN  IF branch = "else"
        THEN [result |-> UnknownToolResult(name), calls |-> <<>>, sent |-> <<>>,
              fault |-> FALSE]
        ELSE IF fault.raised
        THEN [result |-> ToolError(fault.msg), calls |-> <<>>, sent |-> <<>>,
              fault |-> TRUE]
        ELSE LET c == BackendRequest(branch, args)
                 r == vercel_request(c.method, c.endpoint, c.data, c.params,
                                     token, team, reply)
             IN  [result |-> ToolResult(r.ret), calls |-> <<Invocation(c, r.ret)>>,
                  sent |-> r.sent, fault |-> FALSE]

(***************************************************************************)
(* MCP protocol adapter                                                    *)
(***************************************************************************)
Envelope(id, key, value) ==
    JObj(<< <<"jsonrpc", JStr("2.0")>>, <<"id", id>>, <<key, value>> >>)

InitializeResult ==
    JObj(<< <<"protocolVersion", JStr("2024-11-05")>>,
            <<"capabilities",
              JObj(<< <<"tools", JObj(<< <<"listChanged", JBool(TRUE)>> >>)>> >>)>>,
            <<"serverInfo",
              JObj(<< <<"name", JStr("vercel-mcp")>>, <<"version", JStr("1.0.0")>> >>)>> >>)

\* Mutant of ToolsListResult: the last registry entry is dropped.
ToolsListResult_Truncated(registry) ==
    JObj(<< <<"tools", JArr(SubSeq(registry.o, 1, Len(registry.o) - 1))>> >>)

\* {"tools": TOOLS}
ToolsListResult(registry) == JObj(<< <<"tools", registry>> >>)

\* {"code": -32601, "message": f"Method not found: {method}"}
MethodNotFound(method) ==
    JObj(<< <<"code", JNum(-32601)>>,
            <<"message", JStr("Method not found: " \o PyStr(method))>> >>)

\* Mutant of Route: no branch for notifications/initialized.
Route_NoNotification(method) ==
    IF method.t = "str" /\ method.s \in {"initialize", "tools/list", "tools/call"}
    THEN method.s ELSE "else"

\* The branch of the if/elif chain on method.
Route(method) ==
    IF method.t = "str" /\ method.s \in {"initialize", "tools/list", "tools/call",
                                         "notifications/initialized"}
    THEN method.s ELSE "else"

Routed(env) == [raised |-> FALSE, msg |-> "", val |-> env, calls |-> <<>>,
                sent |-> <<>>, fault |-> FALSE]
Escaped(msg) == [raised |-> TRUE, msg |-> msg, val |-> JNull, calls |-> <<>>,
                 sent |-> <<>>, fault |-> FALSE]

\* The tools/call branch: params.get("name", ""), params.get("arguments", {}).
ToolsCall(params, request_id, token, team, reply) ==
    LET name == PyGet(params, "name", JStr(""))
        args == PyGet(params, "arguments", JObj(<<>>))
    IN  IF name.raised THEN Escaped(name.msg)
        ELSE LET h == handle_tool_call(name.val, args.val, token, team, reply)
             IN  [raised |-> FALSE, msg |-> "",
                  val |-> Envelope(request_id, "result", h.result),
                  calls |-> h.calls, sent |-> h.sent, fault |-> h.fault]

\* process_mcp_message(data) for the parsed body data.
process_mcp_message(data, registry, token, team, reply) ==
    LET method == PyGet(data, "method", JStr(""))
        params == PyGet(data, "params", JObj(<<>>))
        request_id == PyGet(data, "id", JNum(1))
    IN  IF method.raised THEN Escaped(method.msg)
        ELSE CASE Route(method.val) = "initialize" ->
                    Routed(Envelope(request_id.val, "result", InitializeResult))
               [] Route(method.val) = "tools/list" ->
                    Routed(Envelope(request_id.val, "result", ToolsListResult(registry)))
               [] Route(method.val) = "tools/call" ->
                    ToolsCall(params.val, request_id.val, token, team, reply)
               [] Route(method.val) = "notifications/initialized" ->
                    Routed(Envelope(request_id.val, "result", JObj(<<>>)))
               [] OTHER ->
                    Routed(Envelope(request_id.val, "error", MethodNotFound(method.val)))

(***************************************************************************)
(* Transport                                                               *)
(***************************************************************************)
\* A POST body: text that is JSON (valid, with its parsed value) or is not.
Body(valid, value) == [valid |-> valid, value |-> value]

\* request.get_json(): Flask raises BadRequest for a body that is not JSON.
get_json(body) ==
    IF body.valid THEN Return(body.value)
    ELSE Raise("400 Bad Request: The browser (or proxy) sent a request that this server could not understand.")

HttpResponse(status, json) == [status |-> status, json |-> json]

\* {"jsonrpc": "2.0", "id": None, "error": {"code": -32700, ...}}, 400
ParseError ==
    HttpResponse(400, Envelope(JNull, "error",
        JObj(<< <<"code", JNum(-32700)>>, <<"message", JStr("Parse error")>> >>)))

\* Mutant of InternalError: the status is left at the default 200.
InternalError_Status200(msg) ==
    HttpResponse(200, Envelope(JNum(1), "error",
        JObj(<< <<"code", JNum(-32603)>>, <<"message", JStr(msg)>> >>)))

\* {"jsonrpc": "2.0", "id": 1, "error": {"code": -32603, "message": str(e)}}, 500
InternalError(msg) ==
    HttpResponse(500, Envelope(JNum(1), "error",
        JObj(<< <<"code", JNum(-32603)>>, <<"message", JStr(msg)>> >>)))

Handled(resp, calls, sent, clause) ==
    [response |-> resp, calls |-> calls, sent |-> sent, caught |-> clause]

\* mcp_handler() on the body of the POST.
mcp_handler_result(body, registry, token, team, reply) ==
    LET data == get_json(body)
    IN  IF data.raised THEN Handled(InternalError(data.msg), <<>>, <<>>, "mcp_handler")
        ELSE IF ~Truthy(data.val) THEN Handled(ParseError, <<>>, <<>>, "")
        ELSE LET r == process_mcp_message(data.val, registry, token, team, reply)
             IN  IF r.raised
                 THEN Handled(InternalError(r.msg), <<>>, <<>>, "mcp_handler")
                 ELSE Handled(HttpResponse(200, r.val), r.calls, r.sent,
                              IF r.fault THEN "handle_tool_call" ELSE "")

(***************************************************************************)
(* Inbound requests of the model                                           *)
(***************************************************************************)
\* A truthy and a falsy value of each schema type.
SampleValues(key, type) ==
    CASE type = "integer" -> {JNum(5), JNum(0)}
      [] type = "object"  -> {JObj(<< <<"type", JStr("github")>> >>), JObj(<<>>)}
      [] type = "array"   -> {JArr(<<JStr("preview")>>), JArr(<<>>)}
      [] OTHER            -> {JStr("my_" \o key), JStr("")}

\* The dicts that give some of the properties props (<<key, schema>> pairs) a value.
RECURSIVE ArgDicts(_)
ArgDicts(props) ==
    IF props = <<>> THEN {<<>>}
    ELSE LET rest == ArgDicts(Tail(props))
             key == Head(props)[1]
             type == Get(Head(props)[2], "type").s
         IN  rest \cup {<< <<key, v>> >> \o r : v \in SampleValues(key, type), r \in rest}

\* A dict with the keys whose value is given (Absent marks a missing key).
Absent == J("absent", "", <<>>)
Dict(pairs) == JObj(SelectSeq(pairs, LAMBDA p : p[2] # Absent))

NotMappings == {JNull, JArr(<<JNum(1)>>)}

ArgumentsFor(name) ==
    {Absent} \cup NotMappings
    \cup IF name \in ToolNames(ToolTable)
         THEN {JObj(d) : d \in ArgDicts(Get(Get(ToolEntry(ToolTable, name),
                                                 "inputSchema"), "properties").o)}
         ELSE {JObj(<<>>), JObj(<< <<"project_id", JStr("my_project_id")>> >>)}

ParamsValues ==
    {Absent, JNull, JStr("x")}
    \cup {Dict(<< <<"name", JStr(n)>>, <<"arguments", a>> >>) :
            n \in {"unknown_tool"}, a \in ArgumentsFor("unknown_tool")}
    \cup {Dict(<< <<"arguments", a>> >>) : a \in {Absent, JObj(<<>>)}}
    \cup UNION {{Dict(<< <<"name", JStr(n)>>, <<"arguments", a>> >>) :
                    a \in ArgumentsFor(n)} : n \in ToolNames(ToolTable)}

IdValues == {Absent, JNum(7), JNull}
MethodValues == {Absent} \cup {JStr(m) : m \in {"initialize", "tools/list", "tools/call",
                                                "notifications/initialized", "bogus"}}

\* Parsed bodies that are not a non-empty object.
NonObjects == {JNull, JNum(0), JArr(<<>>), JObj(<<>>), JNum(5), JStr("x"),
               JArr(<<JNum(1)>>)}

RequestObjects ==
    {Dict(<< <<"jsonrpc", JStr("2.0")>>, <<"id", i>>, <<"method", m>>, <<"params", p>> >>) :
        i \in IdValues, m \in MethodValues, p \in ParamsValues}

RequestBodies ==
    {Body(FALSE, JNull)} \cup {Body(TRUE, v) : v \in NonObjects \cup RequestObjects}

(***************************************************************************)
(* The server                                                              *)
(***************************************************************************)
None == <<>>

Init ==
    /\ VERCEL_TOKEN \in Tokens
    /\ VERCEL_TEAM_ID \in TeamIds
    /\ TOOLS = ToolTable
    /\ pc = "idle"
    /\ request = None
    /\ response = None
    /\ invocations = <<>>
    /\ outbound = <<>>
    /\ caught = ""
    /\ upstream = None

\* A client POSTs a body to /mcp.
Post ==
    /\ pc = "idle"
    /\ \E body \in RequestBodies : request' = body
    /\ pc' = "received"
    /\ UNCHANGED <<VERCEL_TOKEN, VERCEL_TEAM_ID, TOOLS, response, invocations,
                   outbound, caught, upstream>>

\* mcp_handler runs to completion.  The upstream answers the HTTP request
\* the handler sends with any of Replies; a handler that sends none sees none.
NoReply == HttpReply("", 0, <<>>)
Answers(body, registry, token, team) ==
    IF mcp_handler_result(body, registry, token, team, NoReply).sent = <<>>
    THEN {NoReply} ELSE Replies

mcp_handler ==
    /\ pc = "received"
    /\ \E reply \in Answers(request, TOOLS, VERCEL_TOKEN, VERCEL_TEAM_ID) :
         \E h \in {mcp_handler_result(request, TOOLS, VERCEL_TOKEN, VERCEL_TEAM_ID, reply)} :
             /\ response' = h.response
             /\ invocations' = h.calls
             /\ outbound' = h.sent
             /\ caught' = h.caught
             /\ upstream' = IF h.sent = <<>> THEN None ELSE reply
    /\ pc' = "responded"
    /\ UNCHANGED <<VERCEL_TOKEN, VERCEL_TEAM_ID, TOOLS, request>>

\* The client takes the response; the request is over.
Deliver ==
    /\ pc = "responded"
    /\ pc' = "idle"
    /\ request' = None
    /\ response' = None
    /\ invocations' = <<>>
    /\ outbound' = <<>>
    /\ caught' = ""
    /\ upstream' = None
    /\ UNCHANGED <<VERCEL_TOKEN, VERCEL_TEAM_ID, TOOLS>>

Next == Post \/ mcp_handler \/ Deliver

Spec == Init /\ [][Next]_vars

(***************************************************************************)
(* The backend client on its own: vercel_request applied to the requests   *)
(* the dispatcher can build and to the HTTP methods the client knows.      *)
(***************************************************************************)
ClientMethods == {"GET", "POST", "PATCH", "DELETE", "PUT", "HEAD"}
ClientEndpoints == {"/v9/projects", "/v2/user"}
ClientData == {JNull, JObj(<< <<"name", JStr("my_name")>> >>)}
ClientParams ==
    {JNull, JObj(<<>>),
     JObj(<< <<"limit", JNum(20)>> >>),
     JObj(<< <<"limit", JNum(5)>>, <<"projectId", JStr("my_project_id")>>,
             <<"state", JStr("READY")>> >>)}

InitClient ==
    /\ VERCEL_TOKEN \in Tokens
    /\ VERCEL_TEAM_ID \in TeamIds
    /\ TOOLS = ToolTable
    /\ pc = "client"
    /\ request = None
    /\ response = None
    /\ invocations = <<>>
    /\ outbound = <<>>
    /\ caught = ""
    /\ upstream = None

Execute ==
    /\ pc = "client"
    /\ \E method \in ClientMethods, endpoint \in ClientEndpoints, data \in ClientData,
          params \in ClientParams, reply \in Replies :
         \E r \in {vercel_request(method, endpoint, data, params,
                                  VERCEL_TOKEN, VERCEL_TEAM_ID, reply)} :
             /\ invocations' = <<Invocation(Call(method, endpoint, data, params), r.ret)>>
             /\ outbound' = r.sent
             /\ upstream' = IF r.sent = <<>> THEN None ELSE reply
    /\ pc' = "returned"
    /\ UNCHANGED <<VERCEL_TOKEN, VERCEL_TEAM_ID, TOOLS, request, response, caught>>

\* The caller has the result; the next call starts afresh.
Returned ==
    /\ pc = "returned"
    /\ pc' = "client"
    /\ invocations' = <<>>
    /\ outbound' = <<>>
    /\ upstream' = None
    /\ UNCHANGED <<VERCEL_TOKEN, VERCEL_TEAM_ID, TOOLS, request, response, caught>>

NextClient == Execute \/ Returned

SpecClient == InitClient /\ [][NextClient]_vars

\* The server and the client on its own, side by side.
InitAll == Init \/ InitClient
NextAll == Next \/ NextClient
SpecAll == InitAll /\ [][NextAll]_vars

(***************************************************************************)
(* Observations on a handled request                                       *)
(***************************************************************************)
Responded == pc = "responded"
Data == request.value
\* The request parsed to a non-empty JSON object.
IsObjectRequest == request.valid /\ IsDict(Data) /\ Truthy(Data)
RequestMethod == IF Has(Data, "method") THEN Get(Data, "method") ELSE JStr("")
RequestParams == IF Has(Data, "params") THEN Get(Data, "params") ELSE JObj(<<>>)
\* A tools/call whose params is an object, so that the dispatcher is entered.
IsToolsCall == IsObjectRequest /\ RequestMethod = JStr("tools/call") /\ IsDict(RequestParams)
CallName == IF Has(RequestParams, "name") THEN Get(RequestParams, "name").s ELSE ""
CallArgs == IF Has(RequestParams, "arguments") THEN Get(RequestParams, "arguments")
            ELSE JObj(<<>>)

RegistryNames == ToolNames(ToolTable)

HasResult == Has(response.json, "result")
HasError == Has(response.json, "error")
Result == Get(response.json, "result")
ErrorCode == Get(Get(response.json, "error"), "code").s
ErrorMessage == Get(Get(response.json, "error"), "message").s
ResultText == Get(Get(Result, "content").o[1], "text").s
IsErrorSet == Has(Result, "isError")
IsErrorTrue == IsErrorSet /\ Get(Result, "isError") = JBool(TRUE)

\* The upstream answered with a non-accepted status, or the transport raised.
UpstreamFailed ==
    /\ upstream # None
    /\ upstream.exc # "" \/ upstream.status_code \notin {200, 201, 202, 204}
FailureMessage ==
    IF upstream.exc # "" THEN upstream.exc
    ELSE "HTTP " \o ToString(upstream.status_code)

(***************************************************************************)
(* C1: in a tools/call for a registered tool whose backend call fails (a    *)
(* non-accepted HTTP status or a transport exception), the response is a   *)
(* JSON-RPC result, not an error; its text is the JSON serialization of    *)
(* the failure with its "error" field; isError is not set.  isError is set *)
(* in a tools/call result only for an unknown name or an exception raised  *)
(* inside the dispatcher.                                                  *)
(***************************************************************************)
C1_FailureIsResult ==
    (Responded /\ IsToolsCall) =>
        /\ (CallName \in RegistryNames /\ invocations # <<>> /\ UpstreamFailed) =>
              /\ response.status = 200
              /\ HasResult /\ ~HasError
              /\ ~IsErrorSet
              /\ \/ ResultText = "{\n  \"error\": \"" \o FailureMessage \o "\"\n}"
                 \/ ResultText = "{\n  \"error\": \"" \o FailureMessage
                                 \o "\",\n  \"details\": \""
                                 \o Join(SubSeq(upstream.text, 1,
                                                Min(DetailsLimit, Len(upstream.text))))
                                 \o "\"\n}"
        /\ (HasResult /\ IsErrorSet) =>
              (CallName \notin RegistryNames \/ caught = "handle_tool_call")

C1_Witness ==
    /\ Responded /\ IsToolsCall
    /\ CallName = "get_project"
    /\ upstream # None /\ upstream.exc = "" /\ upstream.status_code = 404
    /\ HasResult /\ ~IsErrorSet
    /\ ResultText = "{\n  \"error\": \"HTTP 404\",\n  \"details\": \"\"\n}"

(***************************************************************************)
(* C2: a tools/call the dispatcher rejects makes no backend call and       *)
(* returns a result with isError true: "Unknown tool: <name>" for a name   *)
(* outside the registry, and a text beginning with "Error:" when the       *)
(* arguments omit a field the tool's schema lists as required.             *)
(***************************************************************************)
MissingRequired ==
    IF CallName \in RegistryNames /\ IsDict(CallArgs)
    THEN ToolRequired(ToolTable, CallName) \ Keys(CallArgs)
    ELSE {}
ErrorTexts == {"Error: '" \o k \o "'" : k \in UNION {ToolProperties(ToolTable, n) : n \in RegistryNames}}

C2_RejectedWithoutCall ==
    (Responded /\ IsToolsCall) =>
        /\ CallName \notin RegistryNames =>
              /\ invocations = <<>> /\ outbound = <<>>
              /\ HasResult /\ IsErrorTrue
              /\ ResultText = "Unknown tool: " \o CallName
        /\ MissingRequired # {} =>
              /\ invocations = <<>> /\ outbound = <<>>
              /\ HasResult /\ IsErrorTrue
              /\ ResultText \in ErrorTexts

C2_Witness ==
    /\ Responded /\ IsToolsCall
    /\ CallName = "create_env_var"
    /\ IsDict(CallArgs) /\ Keys(CallArgs) = {"project_id", "key", "target"}
    /\ invocations = <<>>
    /\ IsErrorTrue
    /\ ResultText = "Error: 'value'"

(***************************************************************************)
(* C3: a tools/call for a registered tool whose arguments (a mapping) hold *)
(* every required field makes exactly one backend client invocation and    *)
(* one HTTP request, also when it fails, with the documented method and    *)
(* path; no registered name reaches the "Unknown tool" branch.             *)
(***************************************************************************)
DocumentedRoute(name, args) ==
    CASE name = "list_projects"     -> <<"GET", "/v9/projects">>
      [] name = "create_project"    -> <<"POST", "/v10/projects">>
      [] name = "get_deployment"    ->
           <<"GET", "/v13/deployments/" \o Get(args, "deployment_id").s>>
      [] name = "cancel_deployment" ->
           <<"PATCH", "/v12/deployments/" \o Get(args, "deployment_id").s \o "/cancel">>
      [] OTHER -> <<>>

C3_ExactlyOneCall ==
    (Responded /\ IsToolsCall /\ CallName \in RegistryNames) =>
        /\ ResultText # "Unknown tool: " \o CallName
        /\ (IsDict(CallArgs) /\ MissingRequired = {}) =>
              /\ Len(invocations) = 1
              /\ Len(outbound) = 1
              /\ outbound[1].method = invocations[1].method
              /\ outbound[1].url = "https://api.vercel.com" \o invocations[1].endpoint
              /\ DocumentedRoute(CallName, CallArgs) # <<>> =>
                    <<invocations[1].method, invocations[1].endpoint>>
                        = DocumentedRoute(CallName, CallArgs)

C3_Witness ==
    /\ Responded /\ IsToolsCall
    /\ CallName = "cancel_deployment"
    /\ UpstreamFailed
    /\ Len(invocations) = 1 /\ Len(outbound) = 1
    /\ outbound[1].method = "PATCH"
    /\ outbound[1].url = "https://api.vercel.com/v12/deployments/my_deployment_id/cancel"

(***************************************************************************)
(* Observations on a backend client invocation                             *)
(***************************************************************************)
\* The invocation sent an HTTP request and the upstream answered it.
Answered == invocations # <<>> /\ outbound # <<>> /\ upstream # None
Ret == invocations[1].ret
AcceptedBody == upstream.exc = "" /\ upstream.status_code \in {200, 201, 202}
BodyIsJson == upstream.text \in {<<"{", "}">>, <<"[", "1", "]">>}
ParsedBody ==
    IF upstream.text = <<"{", "}">> THEN JObj(<<>>) ELSE JArr(<<JNum(1)>>)
OnlyError(ret, msg) == Keys(ret) = {"error"} /\ Get(ret, "error") = JStr(msg)

(***************************************************************************)
(* C4 as stated: the backend client maps a response to its result by the   *)
(* status code alone; in particular status 200, 201 or 202 yields the      *)
(* parsed JSON body.                                                       *)
(***************************************************************************)
C4_Original ==
    (Answered /\ AcceptedBody) =>
        /\ ~ResponseJson(upstream.text).raised
        /\ Ret = ResponseJson(upstream.text).val

(***************************************************************************)
(* C4 as amended: status 204 yields {"success": true}; status 200, 201 or  *)
(* 202 yields the parsed JSON body when the body is JSON and otherwise a   *)
(* failure with only the decoder's message; every other status yields      *)
(* "HTTP <code>" with the first 500 characters of the body; a transport    *)
(* exception yields a failure with only the exception's message.           *)
(***************************************************************************)
C4_StatusMapping ==
    Answered =>
        /\ upstream.exc # "" => OnlyError(Ret, upstream.exc)
        /\ (upstream.exc = "" /\ upstream.status_code = 204) =>
              Ret = JObj(<< <<"success", JBool(TRUE)>> >>)
        /\ (AcceptedBody /\ BodyIsJson) => Ret = ParsedBody
        /\ (AcceptedBody /\ ~BodyIsJson) =>
              OnlyError(Ret, "Expecting value: line 1 column 1 (char 0)")
        /\ (upstream.exc = "" /\ upstream.status_code \notin {200, 201, 202, 204}) =>
              /\ Ret.t = "obj" /\ Len(Ret.o) = 2
              /\ Ret.o[1] = <<"error", JStr("HTTP " \o ToString(upstream.status_code))>>
              /\ Ret.o[2][1] = "details"
              /\ Len(Ret.o[2][2].s) = Min(500, Len(upstream.text))
              /\ Ret.o[2][2].s = Join(SubSeq(upstream.text, 1, Len(Ret.o[2][2].s)))

C4_Witness ==
    /\ Answered
    /\ upstream.exc = "" /\ upstream.status_code = 200 /\ upstream.text = <<>>
    /\ OnlyError(Ret, "Expecting value: line 1 column 1 (char 0)")

(***************************************************************************)
(* C5: with a team identifier configured every outbound HTTP request, for  *)
(* every HTTP method, carries teamId = the configured value next to the    *)
(* caller's query parameters, unchanged; with none configured no outbound  *)
(* request carries teamId and the caller's parameters pass as given.       *)
(***************************************************************************)
CallerParams == invocations[1].params
CallerKeys == IF IsDict(CallerParams) THEN Keys(CallerParams) ELSE {}

C5_TeamScoping ==
    (invocations # <<>> /\ outbound # <<>>) =>
        /\ Len(outbound) = 1
        /\ VERCEL_TEAM_ID # "" =>
              /\ IsDict(outbound[1].params)
              /\ Keys(outbound[1].params) = CallerKeys \cup {"teamId"}
              /\ Get(outbound[1].params, "teamId") = JStr(VERCEL_TEAM_ID)
              /\ \A k \in CallerKeys \ {"teamId"} :
                    Get(outbound[1].params, k) = Get(CallerParams, k)
        /\ VERCEL_TEAM_ID = "" =>
              /\ outbound[1].params = CallerParams
              /\ IsDict(outbound[1].params) => ~Has(outbound[1].params, "teamId")

C5_Witness ==
    /\ invocations # <<>> /\ outbound # <<>>
    /\ VERCEL_TEAM_ID = "team_abc"
    /\ invocations[1].method = "PUT"
    /\ CallerKeys = {"limit", "projectId", "state"}
    /\ Keys(outbound[1].params) = {"limit", "projectId", "state", "teamId"}

(***************************************************************************)
(* C6: every response, on every path, carries the id of the request, and   *)
(* id 1 when the request has none.                                         *)
(***************************************************************************)
EchoedId ==
    IF request.valid /\ IsDict(Data) /\ Has(Data, "id") THEN Get(Data, "id") ELSE JNum(1)

C6_IdEchoed ==
    Responded => (Has(response.json, "id") /\ Get(response.json, "id") = EchoedId)

(***************************************************************************)
(* C7: a body that is not JSON is answered with error -32700 and status    *)
(* 400, and a body that is JSON is never answered with -32700.             *)
(***************************************************************************)
C7_ParseErrorTier ==
    Responded =>
        /\ ~request.valid => (HasError /\ ErrorCode = "-32700" /\ response.status = 400)
        /\ request.valid => ~(HasError /\ ErrorCode = "-32700")

(***************************************************************************)
(* C8: an exception that escapes message processing is answered with error *)
(* -32603 and status 500; an exception raised inside the dispatcher is     *)
(* answered with status 200 and a JSON-RPC result whose isError is true.   *)
(***************************************************************************)
C8_InternalErrorTier ==
    Responded =>
        /\ caught = "mcp_handler" =>
              /\ response.status = 500
              /\ HasError /\ ~HasResult
              /\ ErrorCode = "-32603"
        /\ caught = "handle_tool_call" =>
              /\ response.status = 200
              /\ HasResult /\ ~HasError
              /\ IsErrorTrue
        /\ (IsObjectRequest /\ RequestMethod = JStr("tools/call")
              /\ ~IsDict(RequestParams)) => caught = "mcp_handler"
        /\ (request.valid /\ Truthy(Data) /\ ~IsDict(Data)) => caught = "mcp_handler"
        /\ (IsToolsCall /\ ~IsDict(CallArgs) /\ CallName \in RegistryNames \ {"get_user"}) =>
              caught = "handle_tool_call"

C8_Witness ==
    /\ Responded
    /\ IsObjectRequest /\ RequestMethod = JStr("tools/call")
    /\ RequestParams = JStr("x")
    /\ caught = "mcp_handler"
    /\ response.status = 500
    /\ ErrorCode = "-32603"
    /\ ErrorMessage = "'str' object has no attribute 'get'"

(***************************************************************************)
(* C9: whenever process_mcp_message returns, a method other than the four  *)
(* recognized ones (an absent one too) gets error -32601 "Method not       *)
(* found: <method>" and no backend call, each recognized method gets a     *)
(* result and no error; every response carries exactly one of the two.     *)
(***************************************************************************)
Recognized == {JStr("initialize"), JStr("tools/list"), JStr("tools/call"),
               JStr("notifications/initialized")}

C9_MethodRouting ==
    Responded =>
        /\ HasResult # HasError
        /\ (IsObjectRequest /\ caught # "mcp_handler") =>
              /\ response.status = 200
              /\ RequestMethod \notin Recognized =>
                    /\ HasError /\ ~HasResult
                    /\ ErrorCode = "-32601"
                    /\ ErrorMessage = "Method not found: " \o RequestMethod.s
                    /\ invocations = <<>> /\ outbound = <<>>
              /\ RequestMethod \in Recognized => (HasResult /\ ~HasError)

C9_Witness ==
    /\ Responded /\ IsObjectRequest
    /\ ~Has(Data, "method")
    /\ HasError /\ ErrorCode = "-32601"
    /\ ErrorMessage = "Method not found: "
    /\ invocations = <<>>

(***************************************************************************)
(* C10: no request changes the tool registry or the configuration, and     *)
(* tools/list returns, each time, a tools array holding the static         *)
(* definitions, as many as the registry has.                               *)
(***************************************************************************)
IsToolsList == IsObjectRequest /\ RequestMethod = JStr("tools/list")

====
